---- MODULE Spec2Model ----
(***************************************************************************)
(* A model of librocksdb-sys/build.rs: one run of the build script `main`, *)
(* from the environment it is started in to the cargo directives it prints *)
(* and the cc::Build configurations it hands to the compiler.              *)
(*                                                                         *)
(* Strings are TLA+ strings; substring tests, splitting, trimming and case *)
(* folding are computed character by character, as the Rust code does.     *)
(***************************************************************************)
EXTENDS Integers, Sequences, FiniteSets, TLC

VARIABLES
    pc,         \* position of main(): the next step to run
    env,        \* the process environment: variable name -> value or Unset
    features,   \* the cargo features the script was compiled with (cfg!)
    master,     \* the text of rocksdb_lib_sources.txt (include_str!)
    nix_paths,  \* NixPaths resolved by default_nix_paths
    dirs,       \* what fail_on_empty_directory saw: directory -> DirStates
    tools,      \* what the external tools answered, once asked
    out,        \* the lines printed to stdout, in order
    config,     \* the cc::Build of build_rocksdb, as assembled so far
    snappy_config, \* the cc::Build of build_snappy
    compiled,   \* the archives handed to cc::Build::compile, in order
    panic       \* "" while running, else the place main() panicked

vars == <<pc, env, features, master, nix_paths, dirs, tools, out, config,
          snappy_config, compiled, panic>>

----------------------------------------------------------------------------
(* Strings *)

Unset == "<unset>"

\* str::contains
Contains(t, p) ==
    \E i \in 1..(Len(t) - Len(p) + 1) : SubSeq(t, i, i + Len(p) - 1) = p

UpperToLower ==
    [A |-> "a", B |-> "b", C |-> "c", D |-> "d", E |-> "e", F |-> "f", G |-> "g",
     H |-> "h", I |-> "i", J |-> "j", K |-> "k", L |-> "l", M |-> "m", N |-> "n",
     O |-> "o", P |-> "p", Q |-> "q", R |-> "r", S |-> "s", T |-> "t", U |-> "u",
     V |-> "v", W |-> "w", X |-> "x", Y |-> "y", Z |-> "z"]

LowerChar(c) == IF c \in DOMAIN UpperToLower THEN UpperToLower[c] ELSE c

RECURSIVE to_lowercase(_)
\* str::to_lowercase, on the ASCII strings of the model
to_lowercase(s) ==
    IF s = "" THEN ""
    ELSE LowerChar(SubSeq(s, 1, 1)) \o to_lowercase(SubSeq(s, 2, Len(s)))

Whitespace == {" ", "\t", "\n", "\r"}

\* str::trim
trim(s) ==
    LET keep == {i \in 1..Len(s) : SubSeq(s, i, i) \notin Whitespace}
    IN  IF keep = {} THEN ""
        ELSE LET a == CHOOSE i \in keep : \A j \in keep : i <= j
                 back == {Len(s) - i : i \in keep}
                 b == Len(s) - (CHOOSE i \in back : \A j \in back : i <= j)
             IN  SubSeq(s, a, b)

\* str::split(sep), collected: the fields between the separators, in order
split(s, sep) ==
    LET at == {i \in 1..Len(s) : SubSeq(s, i, i) = sep}
        n  == Cardinality(at)
        nth(k) == IF k = 0 THEN 0
                  ELSE IF k = n + 1 THEN Len(s) + 1
                  ELSE CHOOSE p \in at : Cardinality({q \in at : q < p}) = k - 1
    IN  [k \in 1..(n + 1) |-> SubSeq(s, nth(k - 1) + 1, nth(k) - 1)]

\* Vec::contains / Iterator::any on a sequence
InSeq(x, s) == \E i \in DOMAIN s : s[i] = x

Count(x, s) == Cardinality({i \in DOMAIN s : s[i] = x})

RECURSIVE Filter(_, _)
\* Iterator::filter with the predicate "not in drop", order kept
Filter(s, drop) ==
    IF s = <<>> THEN <<>>
    ELSE IF Head(s) \in drop THEN Filter(Tail(s), drop)
    ELSE <<Head(s)>> \o Filter(Tail(s), drop)

----------------------------------------------------------------------------
(* The inputs of a run *)

\* TARGET, as cargo sets it: the targets build_rocksdb is checked on
Targets ==
    {"x86_64-unknown-linux-gnu", "x86_64-unknown-linux-musl",
     "x86_64-unknown-linux-gnux32", "i686-unknown-linux-gnu",
     "riscv64gc-unknown-linux-gnu", "aarch64-linux-android",
     "armv7-linux-androideabi", "x86_64-linux-android", "x86_64-apple-darwin",
     "aarch64-apple-ios",
     "x86_64-unknown-freebsd", "x86_64-unknown-netbsd", "x86_64-unknown-openbsd",
     "x86_64-unknown-dragonfly", "powerpc64-ibm-aix", "x86_64-pc-windows-gnu",
     "x86_64-pc-windows-msvc", "wasm32-unknown-unknown"}

\* the targets of the runs of main()
MainTargets ==
    {"x86_64-unknown-linux-gnu", "riscv64gc-unknown-linux-gnu",
     "aarch64-linux-android", "x86_64-apple-darwin", "aarch64-apple-ios",
     "x86_64-unknown-freebsd", "x86_64-unknown-netbsd", "x86_64-unknown-openbsd",
     "powerpc64-ibm-aix", "x86_64-pc-windows-gnu", "x86_64-pc-windows-msvc",
     "wasm32-unknown-unknown"}

\* CARGO_CFG_TARGET_POINTER_WIDTH, which cargo derives from the target
PointerWidthOf(t) ==
    IF t \in {"x86_64-unknown-linux-gnux32", "i686-unknown-linux-gnu",
              "armv7-linux-androideabi", "wasm32-unknown-unknown"}
    THEN "32" ELSE "64"

\* CARGO_CFG_TARGET_ENDIAN, which cargo derives from the target
EndianOf(t) == IF t = "powerpc64-ibm-aix" THEN "big" ELSE "little"

AllFeatures ==
    {"snappy", "lz4", "zstd", "zlib", "bzip2", "rtti", "lto", "jemalloc",
     "io-uring", "mt_static"}

\* the feature sets the script is compiled with, in runs of main()
FeatureSets == {{}, {"snappy"}, AllFeatures}

\* the overrides of a run of main(): unset or set
CompileValues == {Unset, "TRUE"}
LibDirValues  == {Unset, "/opt/lib"}
StaticValues  == {Unset, "0"}
StdlibValues  == {Unset, "c++_shared"}

\* NixPaths fields and the environment variable each is read from
NixVars ==
    << <<"glibc_dev", "NIX_GLIBC_DEV">>,
       <<"gcc_path", "NIX_GCC_PATH">>,
       <<"gcc_cpp_include", "NIX_GCC_CPP_INCLUDE">>,
       <<"zlib_include", "NIX_ZLIB_INCLUDE">>,
       <<"bzip2_include", "NIX_BZIP2_INCLUDE">>,
       <<"lz4_include", "NIX_LZ4_INCLUDE">>,
       <<"lz4_lib", "NIX_LZ4_LIB">>,
       <<"zstd_include", "NIX_ZSTD_INCLUDE">>,
       <<"zstd_lib", "NIX_ZSTD_LIB">>,
       <<"llvm_config", "NIX_LLVM_CONFIG">>,
       <<"libclang_path", "NIX_LIBCLANG_PATH">>,
       <<"llvm_config_path", "NIX_LLVM_CONFIG_PATH">> >>

NixFields == {NixVars[i][1] : i \in DOMAIN NixVars}
NixEnvNames == {NixVars[i][2] : i \in DOMAIN NixVars}

\* HardcodedNixPaths: the provider's path for a field (the crate's literals
\* are not part of this repository; each is a distinct store path)
HardcodedNixPaths(field) == "/nix/store/" \o field

EnvNames ==
    {"TARGET", "CARGO_CFG_TARGET_POINTER_WIDTH", "CARGO_CFG_TARGET_ENDIAN",
     "CARGO_CFG_TARGET_FEATURE", "CARGO_MANIFEST_DIR", "OUT_DIR",
     "ROCKSDB_COMPILE", "ROCKSDB_LIB_DIR", "ROCKSDB_STATIC",
     "SNAPPY_COMPILE", "SNAPPY_LIB_DIR", "SNAPPY_STATIC",
     "CXXSTDLIB", "ROCKSDB_INCLUDE_DIR", "DEP_JEMALLOC_ROOT",
     "CC", "CXX", "CPATH", "CXXFLAGS", "CFLAGS", "C_INCLUDE_PATH",
     "CPLUS_INCLUDE_PATH", "LIBRARY_PATH", "LD_LIBRARY_PATH", "PROTOC",
     "PROTOC_INCLUDE", "BINDGEN_EXTRA_CLANG_ARGS", "LLVM_CONFIG",
     "LLVM_CONFIG_PATH", "LIBCLANG_PATH", "LIBCLANG_FLAGS",
     "NIX_GCC_REAL_PATH", "PKG_CONFIG_PATH", "IPHONEOS_DEPLOYMENT_TARGET"}
    \cup NixEnvNames

\* rocksdb_lib_sources.txt in runs of main(), one path per line
MasterText ==
    "db/db_impl.cc\nenv/env_posix.cc\nenv/fs_posix.cc\nenv/io_posix.cc\nport/port_posix.cc\nutil/build_version.cc\nutil/crc32c.cc\n"

DirStates == {"missing", "empty", "populated"}

\* the environment cargo starts the script in
StartEnv(t, rc, rl, rs, sc, sl, ss, cxx, tf, nix) ==
    [n \in EnvNames |->
        CASE n = "TARGET" -> t
          [] n = "CARGO_CFG_TARGET_POINTER_WIDTH" -> PointerWidthOf(t)
          [] n = "CARGO_CFG_TARGET_ENDIAN" -> EndianOf(t)
          [] n = "CARGO_CFG_TARGET_FEATURE" -> tf
          [] n = "CARGO_MANIFEST_DIR" -> "/src/librocksdb-sys"
          [] n = "OUT_DIR" -> "/target/out"
          [] n = "ROCKSDB_COMPILE" -> rc
          [] n = "ROCKSDB_LIB_DIR" -> rl
          [] n = "ROCKSDB_STATIC" -> rs
          [] n = "SNAPPY_COMPILE" -> sc
          [] n = "SNAPPY_LIB_DIR" -> sl
          [] n = "SNAPPY_STATIC" -> ss
          [] n = "CXXSTDLIB" -> cxx
          [] n \in NixEnvNames -> nix[n]
          [] OTHER -> Unset]

\* env::var(name): Ok(value) or Err, for the Unicode values of the model
IsSet(e, name) == e[name] # Unset

\* env::set_var / env::remove_var, for each name of a set
SetVars(e, kv) == [n \in DOMAIN e |-> IF n \in DOMAIN kv THEN kv[n] ELSE e[n]]
RemoveVars(e, names) == [n \in DOMAIN e |-> IF n \in names THEN Unset ELSE e[n]]

----------------------------------------------------------------------------
(* The directives main() prints *)

LinkSearch(path) == "cargo:rustc-link-search=native=" \o path
LinkLib(mode, name) == "cargo:rustc-link-lib=" \o mode \o "=" \o name

StartsWith(s, p) == Len(s) >= Len(p) /\ SubSeq(s, 1, Len(p)) = p
IsLinkLib(line) == StartsWith(line, "cargo:rustc-link-lib=")
IsLinkSearch(line) == StartsWith(line, "cargo:rustc-link-search=")
IsLink(line) == IsLinkLib(line) \/ IsLinkSearch(line)

----------------------------------------------------------------------------
(* Override resolution: get_nix_path_from_env and NixPaths *)

\* get_nix_path_from_env keeping the built-in default on a mismatch
get_nix_path_from_env_DefaultWins(e, env_var, hardcoded) ==
    IF IsSet(e, env_var)
    THEN [value |-> hardcoded,
          lines |->
            IF e[env_var] # hardcoded
            THEN << "cargo:warning=Nix path mismatch for " \o env_var
                      \o ": Environment provided '" \o e[env_var]
                      \o "', hardcoded is '" \o hardcoded \o "'.",
                    "cargo:warning=Using path from environment variable: "
                      \o e[env_var] >>
            ELSE << "cargo:warning=Nix path for " \o env_var
                      \o " matches hardcoded: " \o e[env_var] >>]
    ELSE [value |-> hardcoded,
          lines |-> << "cargo:warning=Environment variable " \o env_var
                         \o " not set. Using hardcoded fallback path from provider: "
                         \o hardcoded >>]

\* get_nix_path_from_env: the value returned and the diagnostics printed
get_nix_path_from_env(e, env_var, hardcoded) ==
    IF IsSet(e, env_var)
    THEN [value |-> e[env_var],
          lines |->
            IF e[env_var] # hardcoded
            THEN << "cargo:warning=Nix path mismatch for " \o env_var
                      \o ": Environment provided '" \o e[env_var]
                      \o "', hardcoded is '" \o hardcoded \o "'.",
                    "cargo:warning=Using path from environment variable: "
                      \o e[env_var] >>
            ELSE << "cargo:warning=Nix path for " \o env_var
                      \o " matches hardcoded: " \o e[env_var] >>]
    ELSE [value |-> hardcoded,
          lines |-> << "cargo:warning=Environment variable " \o env_var
                         \o " not set. Using hardcoded fallback path from provider: "
                         \o hardcoded >>]

RECURSIVE NixLines(_, _)
\* the diagnostics of the twelve lookups of default_nix_paths, in field order
NixLines(e, i) ==
    IF i > Len(NixVars) THEN <<>>
    ELSE get_nix_path_from_env(e, NixVars[i][2], HardcodedNixPaths(NixVars[i][1])).lines
         \o NixLines(e, i + 1)

\* NixPaths::default_nix_paths: every field resolved from its variable
default_nix_paths(e) ==
    [f \in NixFields |->
        LET i == CHOOSE k \in DOMAIN NixVars : NixVars[k][1] = f
        IN  get_nix_path_from_env(e, NixVars[i][2], HardcodedNixPaths(f)).value]

----------------------------------------------------------------------------
(* Dependency decisions: try_to_find_and_link_lib, cpp_link_stdlib, link *)

\* ForceCompile comparing the value as written, without to_lowercase
ForceCompile_CaseSensitive(e, lib_name) ==
    /\ IsSet(e, lib_name \o "_COMPILE")
    /\ e[lib_name \o "_COMPILE"] \in {"true", "1"}

\* the test of <lib>_COMPILE in try_to_find_and_link_lib
ForceCompile(e, lib_name) ==
    /\ IsSet(e, lib_name \o "_COMPILE")
    /\ \/ to_lowercase(e[lib_name \o "_COMPILE"]) = "true"
       \/ e[lib_name \o "_COMPILE"] = "1"

\* static or dylib, from whether <lib>_STATIC is set at all (env::var_os)
LinkMode(e, lib_name) ==
    IF IsSet(e, lib_name \o "_STATIC") THEN "static" ELSE "dylib"

\* try_to_find_and_link_lib printing the link-lib line before the link-search
\* line
try_to_find_and_link_lib_LibFirst(e, lib_name) ==
    IF ForceCompile(e, lib_name)
    THEN [found |-> FALSE,
          lines |-> << "cargo:rerun-if-env-changed=" \o lib_name \o "_COMPILE" >>]
    ELSE IF IsSet(e, lib_name \o "_LIB_DIR")
    THEN [found |-> TRUE,
          lines |-> << "cargo:rerun-if-env-changed=" \o lib_name \o "_COMPILE",
                       "cargo:rerun-if-env-changed=" \o lib_name \o "_LIB_DIR",
                       "cargo:rerun-if-env-changed=" \o lib_name \o "_STATIC",
                       LinkLib(LinkMode(e, lib_name), to_lowercase(lib_name)),
                       LinkSearch(e[lib_name \o "_LIB_DIR"]) >>]
    ELSE [found |-> FALSE,
          lines |-> << "cargo:rerun-if-env-changed=" \o lib_name \o "_COMPILE",
                       "cargo:rerun-if-env-changed=" \o lib_name \o "_LIB_DIR",
                       "cargo:rerun-if-env-changed=" \o lib_name \o "_STATIC" >>]

\* try_to_find_and_link_lib: the value returned and the lines printed
try_to_find_and_link_lib(e, lib_name) ==
    IF ForceCompile(e, lib_name)
    THEN [found |-> FALSE,
          lines |-> << "cargo:rerun-if-env-changed=" \o lib_name \o "_COMPILE" >>]
    ELSE IF IsSet(e, lib_name \o "_LIB_DIR")
    THEN [found |-> TRUE,
          lines |-> << "cargo:rerun-if-env-changed=" \o lib_name \o "_COMPILE",
                       "cargo:rerun-if-env-changed=" \o lib_name \o "_LIB_DIR",
                       "cargo:rerun-if-env-changed=" \o lib_name \o "_STATIC",
                       LinkSearch(e[lib_name \o "_LIB_DIR"]),
                       LinkLib(LinkMode(e, lib_name), to_lowercase(lib_name)) >>]
    ELSE [found |-> FALSE,
          lines |-> << "cargo:rerun-if-env-changed=" \o lib_name \o "_COMPILE",
                       "cargo:rerun-if-env-changed=" \o lib_name \o "_LIB_DIR",
                       "cargo:rerun-if-env-changed=" \o lib_name \o "_STATIC" >>]

\* cpp_link_stdlib without the CXXSTDLIB override
cpp_link_stdlib_NoOverride(e, target) ==
    IF \/ Contains(target, "apple")
       \/ Contains(target, "freebsd")
       \/ Contains(target, "openbsd")
    THEN << LinkLib("dylib", "c++") >>
    ELSE IF Contains(target, "linux") THEN << LinkLib("dylib", "stdc++") >>
    ELSE IF Contains(target, "aix")
    THEN << LinkLib("dylib", "c++"), LinkLib("dylib", "c++abi") >>
    ELSE <<>>

\* cpp_link_stdlib: the runtime directives printed for a target
cpp_link_stdlib(e, target) ==
    IF IsSet(e, "CXXSTDLIB") THEN << LinkLib("dylib", e["CXXSTDLIB"]) >>
    ELSE IF \/ Contains(target, "apple")
            \/ Contains(target, "freebsd")
            \/ Contains(target, "openbsd")
    THEN << LinkLib("dylib", "c++") >>
    ELSE IF Contains(target, "linux") THEN << LinkLib("dylib", "stdc++") >>
    ELSE IF Contains(target, "aix")
    THEN << LinkLib("dylib", "c++"), LinkLib("dylib", "c++abi") >>
    ELSE <<>>

\* the FreeBSD branch of main: the system library under /usr/local/lib
FreebsdLink(e) ==
    << LinkSearch("/usr/local/lib"), LinkLib(LinkMode(e, "ROCKSDB"), "rocksdb") >>

\* Vec::get(i) on the target split at '-', zero-based; Unset for None
Segment(target, i) ==
    LET parts == split(target, "-")
    IN  IF i + 1 \in DOMAIN parts THEN parts[i + 1] ELSE Unset

\* link(name, bundled): the lines printed
link(e, name, bundled) ==
    IF Segment(e["TARGET"], 2) = "windows"
    THEN << "cargo:rustc-link-lib=dylib=" \o name >>
         \o (IF bundled /\ Segment(e["TARGET"], 3) = "gnu"
             THEN << LinkSearch(e["CARGO_MANIFEST_DIR"] \o "/"
                                \o Segment(e["TARGET"], 0)) >>
             ELSE <<>>)
    ELSE <<>>

----------------------------------------------------------------------------
(* cc::Build, as far as build_rocksdb fills it *)

None == "<none>"

EmptyConfig ==
    [cpp |-> FALSE, compiler |-> None, static_crt |-> FALSE,
     flags |-> <<>>, flags_if_supported |-> <<>>, includes |-> <<>>,
     defines |-> <<>>, files |-> <<>>]

Define(c, name, value) == [c EXCEPT !.defines = Append(@, <<name, value>>)]
Defines(c, pairs) == [c EXCEPT !.defines = @ \o pairs]
Flags(c, fs) == [c EXCEPT !.flags = @ \o fs]
FlagsIfSupported(c, fs) == [c EXCEPT !.flags_if_supported = @ \o fs]
Includes(c, ds) == [c EXCEPT !.includes = @ \o ds]
Files(c, fs) == [c EXCEPT !.files = @ \o fs]

\* the names a configuration defines
DefinedNames(c) == {c.defines[i][1] : i \in DOMAIN c.defines}

rocksdb_include_dir(e) ==
    IF IsSet(e, "ROCKSDB_INCLUDE_DIR") THEN e["ROCKSDB_INCLUDE_DIR"]
    ELSE "rocksdb/include"

cxx_standard == "-std=c++20"

----------------------------------------------------------------------------
(* build_rocksdb, step by step *)

NO_JEMALLOC_TARGETS == <<"android", "dragonfly", "musl", "darwin">>

\* PlatformPatterns with the linux branch tested before the android branch
PlatformPatterns_LinuxFirst ==
    <<"apple-ios", "darwin", "linux", "aix", "android", "dragonfly", "freebsd",
      "netbsd", "openbsd", "windows">>

\* the substrings of the platform chain, in the order they are tested
PlatformPatterns ==
    <<"apple-ios", "darwin", "android", "aix", "linux", "dragonfly", "freebsd",
      "netbsd", "openbsd", "windows">>

\* the branch of the platform chain a target takes: the first pattern it
\* contains, or None when it contains none
OsBranch(target) ==
    LET hits == {i \in DOMAIN PlatformPatterns : Contains(target, PlatformPatterns[i])}
    IN  IF hits = {} THEN None
        ELSE PlatformPatterns[CHOOSE i \in hits : \A j \in hits : i <= j]

PosixDefines == << <<"ROCKSDB_PLATFORM_POSIX", None>>, <<"ROCKSDB_LIB_IO_POSIX", None>> >>

\* the defines of the branch taken
PlatformDefines(target) ==
    LET b == OsBranch(target)
    IN  CASE b = "apple-ios" ->
               << <<"OS_MACOSX", None>>, <<"IOS_CROSS_COMPILE", None>>,
                  <<"PLATFORM", "IOS">>, <<"NIOSTATS_CONTEXT", None>>,
                  <<"NPERF_CONTEXT", None>> >> \o PosixDefines
          [] b = "darwin" -> << <<"OS_MACOSX", None>> >> \o PosixDefines
          [] b = "android" ->
               << <<"OS_ANDROID", None>> >> \o PosixDefines
               \o (IF target = "armv7-linux-androideabi"
                   THEN << <<"_FILE_OFFSET_BITS", "32">> >> ELSE <<>>)
          [] b = "aix" -> << <<"OS_AIX", None>> >> \o PosixDefines
          [] b = "linux" ->
               << <<"OS_LINUX", None>> >> \o PosixDefines
               \o << <<"ROCKSDB_SCHED_GETCPU_PRESENT", None>> >>
          [] b = "dragonfly" -> << <<"OS_DRAGONFLYBSD", None>> >> \o PosixDefines
          [] b = "freebsd" -> << <<"OS_FREEBSD", None>> >> \o PosixDefines
          [] b = "netbsd" -> << <<"OS_NETBSD", None>> >> \o PosixDefines
          [] b = "openbsd" -> << <<"OS_OPENBSD", None>> >> \o PosixDefines
          [] b = "windows" ->
               << <<"DWIN32", None>>, <<"OS_WIN", None>>, <<"_MBCS", None>>,
                  <<"WIN64", None>>, <<"NOMINMAX", None>>,
                  <<"ROCKSDB_WINDOWS_UTF8_FILENAMES", None>> >>
               \o (IF target = "x86_64-pc-windows-gnu"
                   THEN << <<"_POSIX_C_SOURCE", "1">>,
                           <<"_WIN32_WINNT", "_WIN32_WINNT_VISTA">> >>
                   ELSE <<>>)
          [] OTHER -> <<>>

\* the lines the Windows branch prints through link()
PlatformLinks(e) ==
    IF OsBranch(e["TARGET"]) = "windows"
    THEN link(e, "rpcrt4", FALSE) \o link(e, "shlwapi", FALSE)
    ELSE <<>>

PosixSources ==
    {"port/port_posix.cc", "env/env_posix.cc", "env/fs_posix.cc", "env/io_posix.cc"}

WinSources ==
    <<"port/win/env_default.cc", "port/win/env_win.cc", "port/win/io_win.cc",
      "port/win/port_win.cc", "port/win/win_logger.cc", "port/win/win_thread.cc">>

RECURSIVE MapTrim(_)
MapTrim(s) == IF s = <<>> THEN <<>> ELSE <<trim(Head(s))>> \o MapTrim(Tail(s))

\* the lines of rocksdb_lib_sources.txt: trimmed, split at newlines, each
\* line trimmed
MasterList(text) == MapTrim(split(trim(text), "\n"))

\* lib_sources as first collected: the master list without build_version.cc
InitialSources(text) == Filter(MasterList(text), {"util/build_version.cc"})

\* lib_sources after the platform chain
lib_sources(text, target, feats) ==
    IF OsBranch(target) = "windows"
    THEN Filter(InitialSources(text), PosixSources) \o WinSources
         \o (IF "jemalloc" \in feats THEN <<"port/win/win_jemalloc.cc">> ELSE <<>>)
    ELSE InitialSources(text)

RECURSIVE Prefixed(_, _)
Prefixed(prefix, s) ==
    IF s = <<>> THEN <<>> ELSE <<prefix \o Head(s)>> \o Prefixed(prefix, Tail(s))

\* the files handed to the compiler: every source under rocksdb/, then the
\* pre-generated build_version.cc
CompiledFiles(text, target, feats) ==
    Prefixed("rocksdb/", lib_sources(text, target, feats)) \o <<"build_version.cc">>

\* JemallocEnabled with any() in place of all(): one substring the target
\* does not contain is enough
JemallocEnabled_Any(target, feats) ==
    /\ "jemalloc" \in feats
    /\ \E i \in DOMAIN NO_JEMALLOC_TARGETS : ~Contains(target, NO_JEMALLOC_TARGETS[i])

\* whether the jemalloc defines are made
JemallocEnabled(target, feats) ==
    /\ "jemalloc" \in feats
    /\ \A i \in DOMAIN NO_JEMALLOC_TARGETS : ~Contains(target, NO_JEMALLOC_TARGETS[i])

\* ArchFlags looking for each token anywhere in the reported string instead
\* of among its comma-separated elements
ArchFlags_Substring(e) ==
    IF Contains(e["TARGET"], "x86_64") /\ IsSet(e, "CARGO_CFG_TARGET_FEATURE")
    THEN LET on(token, flag) == IF Contains(e["CARGO_CFG_TARGET_FEATURE"], token)
                                THEN <<flag>> ELSE <<>>
         IN  on("sse2", "-msse2") \o on("sse4.1", "-msse4.1")
             \o on("sse4.2", "-msse4.2") \o on("avx2", "-mavx2")
             \o on("bmi1", "-mbmi") \o on("lzcnt", "-mlzcnt")
             \o (IF ~Contains(e["TARGET"], "android")
                 THEN on("pclmulqdq", "-mpclmul") ELSE <<>>)
    ELSE <<>>

\* the -m flags requested from the reported target features
ArchFlags(e) ==
    IF Contains(e["TARGET"], "x86_64") /\ IsSet(e, "CARGO_CFG_TARGET_FEATURE")
    THEN LET tfs == split(e["CARGO_CFG_TARGET_FEATURE"], ",")
             on(token, flag) == IF InSeq(token, tfs) THEN <<flag>> ELSE <<>>
         IN  on("sse2", "-msse2") \o on("sse4.1", "-msse4.1")
             \o on("sse4.2", "-msse4.2") \o on("avx2", "-mavx2")
             \o on("bmi1", "-mbmi") \o on("lzcnt", "-mlzcnt")
             \o (IF ~Contains(e["TARGET"], "android")
                 THEN on("pclmulqdq", "-mpclmul") ELSE <<>>)
    ELSE <<>>

\* LargeFileDefines without the exemption of armv7-linux-androideabi
LargeFileDefines_NoExemption(e) ==
    IF e["CARGO_CFG_TARGET_POINTER_WIDTH"] # "64"
    THEN << <<"_FILE_OFFSET_BITS", "64">>, <<"_LARGEFILE64_SOURCE", "1">> >>
    ELSE <<>>

\* the large-file pair
LargeFileDefines(e) ==
    IF e["TARGET"] # "armv7-linux-androideabi"
       /\ e["CARGO_CFG_TARGET_POINTER_WIDTH"] # "64"
    THEN << <<"_FILE_OFFSET_BITS", "64">>, <<"_LARGEFILE64_SOURCE", "1">> >>
    ELSE <<>>

\* lines 202-287: toolchain, include paths and the feature defines
ConfigFeatures(e, feats, nix) ==
    LET c0 == [EmptyConfig EXCEPT
                 !.cpp = TRUE,
                 !.compiler = nix["gcc_path"] \o "/bin/g++",
                 !.flags = << "-isystem" \o nix["glibc_dev"] \o "/include" >>,
                 !.includes = << nix["gcc_cpp_include"], rocksdb_include_dir(e) >>]
        c1 == IF "snappy" \in feats
              THEN Includes(Define(c0, "SNAPPY", "1"), <<"snappy/">>) ELSE c0
        c2 == IF "lz4" \in feats
              THEN Includes(Define(c1, "LZ4", "1"), <<nix["lz4_include"]>>) ELSE c1
        c3 == IF "zstd" \in feats
              THEN Includes(Define(c2, "ZSTD", "1"), <<nix["zstd_include"]>>) ELSE c2
        c4 == IF "zlib" \in feats
              THEN Includes(Define(c3, "ZLIB", "1"), <<nix["zlib_include"]>>) ELSE c3
        c5 == IF "bzip2" \in feats
              THEN Includes(Define(c4, "BZIP2", "1"), <<nix["bzip2_include"]>>) ELSE c4
        c6 == IF "rtti" \in feats THEN Define(c5, "USE_RTTI", "1") ELSE c5
    IN  IF "lto" \in feats THEN Flags(c6, <<"-flto">>) ELSE c6

\* FeatureLinks without the directives of zstd
FeatureLinks_Lz4Only(feats, nix) ==
    IF "lz4" \in feats
    THEN << LinkSearch(nix["lz4_lib"]), "cargo:rustc-link-lib=dylib=lz4" >>
    ELSE <<>>

\* the link lines printed for lz4 and zstd
FeatureLinks(feats, nix) ==
    (IF "lz4" \in feats
     THEN << LinkSearch(nix["lz4_lib"]), "cargo:rustc-link-lib=dylib=lz4" >>
     ELSE <<>>)
    \o (IF "zstd" \in feats
        THEN << LinkSearch(nix["zstd_lib"]), "cargo:rustc-link-lib=dylib=zstd" >>
        ELSE <<>>)

\* lines 289-439: common defines, architecture flags, the platform chain,
\* thread-local support and jemalloc
ConfigPlatform(c, e, feats) ==
    LET c1 == Define(Includes(c, <<".", "rocksdb/">>), "NDEBUG", "1")
        c2 == FlagsIfSupported(c1, ArchFlags(e))
        c3 == Defines(c2, PlatformDefines(e["TARGET"]))
        c4 == Define(c3, "ROCKSDB_SUPPORT_THREAD_LOCAL", None)
    IN  IF JemallocEnabled(e["TARGET"], feats)
        THEN LET c5 == Defines(c4, << <<"ROCKSDB_JEMALLOC", "1">>,
                                      <<"JEMALLOC_NO_DEMANGLE", "1">> >>)
             IN  IF IsSet(e, "DEP_JEMALLOC_ROOT")
                 THEN Includes(c5, << e["DEP_JEMALLOC_ROOT"] \o "/include" >>)
                 ELSE c5
        ELSE c4

\* lines 441-491: io-uring, large files, compiler flags and the files
ConfigFinish(c, e, feats, text) ==
    LET target == e["TARGET"]
        c1 == IF "io-uring" \in feats /\ Contains(target, "linux")
              THEN Define(c, "ROCKSDB_IOURING_PRESENT", "1") ELSE c
        c2 == Defines(c1, LargeFileDefines(e))
        c3 == IF Contains(target, "msvc")
              THEN Flags([c2 EXCEPT !.static_crt = "mt_static" \in feats],
                         <<"-EHsc", "-std:c++20">>)
              ELSE Flags(c2, << cxx_standard, "-Wfatal-errors", "-Wsign-compare",
                                "-Wshadow", "-Wno-unused-parameter",
                                "-Wno-unused-variable", "-Woverloaded-virtual",
                                "-Wnon-virtual-dtor", "-Wno-missing-field-initializers",
                                "-Wno-strict-aliasing", "-Wno-invalid-offsetof" >>)
        c4 == Files(c3, CompiledFiles(text, target, feats))
        c5 == FlagsIfSupported(c4, <<"-std=c++20">>)
    IN  IF ~Contains(target, "windows")
        THEN Flags(c5, <<"-include", "cstdint", "-include", "cstddef">>)
        ELSE c5

----------------------------------------------------------------------------
(* build_snappy *)

\* the cc::Build of build_snappy
SnappyConfig(e, feats, nix) ==
    LET c0 == [EmptyConfig EXCEPT
                 !.compiler = nix["gcc_path"] \o "/bin/g++",
                 !.defines = << <<"NDEBUG", "1">> >>,
                 !.flags = << "-isystem" \o nix["glibc_dev"] \o "/include" >>,
                 !.includes = << nix["gcc_cpp_include"], "snappy/", e["OUT_DIR"] >>]
        c1 == IF Contains(e["TARGET"], "msvc")
              THEN Flags([c0 EXCEPT !.static_crt = "mt_static" \in feats], <<"-EHsc">>)
              ELSE Flags(c0, <<"-std=c++11">>)
        c2 == IF e["CARGO_CFG_TARGET_ENDIAN"] = "big"
              THEN Define(c1, "SNAPPY_IS_BIG_ENDIAN", "1") ELSE c1
    IN  [Files(c2, <<"snappy/snappy.cc", "snappy/snappy-sinksource.cc",
                     "snappy/snappy-c.cc">>) EXCEPT !.cpp = TRUE]

----------------------------------------------------------------------------
(* main() *)

Target == env["TARGET"]

Unasked == "<unasked>"

NoNixEnv == [n \in NixEnvNames |-> Unset]

\* main() is started by cargo: the target, the overrides and the features
\* vary; no NIX_* variable and no target feature string is set
Init ==
    /\ pc = "start"
    /\ \E t \in MainTargets, rc \in CompileValues, rl \in LibDirValues,
          rs \in StaticValues, sc \in CompileValues, sl \in LibDirValues,
          ss \in StaticValues, cxx \in StdlibValues :
          env = StartEnv(t, rc, rl, rs, sc, sl, ss, cxx, Unset, NoNixEnv)
    /\ features \in FeatureSets
    /\ master = MasterText
    /\ nix_paths = [f \in NixFields |-> None]
    /\ dirs = [authors |-> Unasked, rocksdb |-> Unasked, snappy |-> Unasked]
    /\ tools = [git |-> Unasked, bindgen |-> Unasked, clang |-> Unasked,
                liburing |-> Unasked]
    /\ out = <<>>
    /\ config = EmptyConfig
    /\ snappy_config = EmptyConfig
    /\ compiled = <<>>
    /\ panic = ""

\* the variables main() removes before it sets up the toolchain
Scrubbed ==
    {"CXXFLAGS", "CPATH", "C_INCLUDE_PATH", "CPLUS_INCLUDE_PATH", "CFLAGS",
     "LIBRARY_PATH", "LD_LIBRARY_PATH", "PROTOC", "PROTOC_INCLUDE",
     "BINDGEN_EXTRA_CLANG_ARGS", "LLVM_CONFIG", "LLVM_CONFIG_PATH",
     "LIBCLANG_PATH", "LIBCLANG_FLAGS", "NIX_GLIBC_DEV", "NIX_GCC_PATH",
     "NIX_GCC_REAL_PATH", "PKG_CONFIG_PATH"}

BindgenVars == {"LIBCLANG_PATH", "LLVM_CONFIG_PATH", "LLVM_CONFIG", "LIBCLANG_FLAGS"}

\* lines 636-665: the environment after the scrubbing and the toolchain setup
EnvAfterSetup(e) ==
    SetVars(RemoveVars(e, Scrubbed),
            [CC |-> default_nix_paths(e)["gcc_path"] \o "/bin/gcc",
             CXX |-> default_nix_paths(e)["gcc_path"] \o "/bin/g++",
             CPATH |-> "", CXXFLAGS |-> ""])

\* lines 629-665: resolve the Nix paths, scrub and set the environment
Setup ==
    /\ pc = "start"
    /\ nix_paths' = default_nix_paths(env)
    /\ out' = out \o NixLines(env, 1)
    /\ env' = EnvAfterSetup(env)
    /\ pc' = "submodules"
    /\ UNCHANGED <<features, master, dirs, tools, config, snappy_config,
                   compiled, panic>>

\* lines 670-672 and update_submodules: fetch the sources when
\* rocksdb/AUTHORS is not there
Submodules ==
    /\ pc = "submodules"
    /\ \E authors \in {"yes", "no"}, git \in {"ok", "failed", "killed", "error"} :
          /\ dirs' = [dirs EXCEPT !.authors = authors]
          /\ IF authors = "yes"
             THEN /\ git = "ok"
                  /\ UNCHANGED <<tools, out, panic>>
                  /\ pc' = "bindgen"
             ELSE /\ tools' = [tools EXCEPT !.git = git]
                  /\ out' = Append(out,
                        "Running command: \"git submodule update --init\" in dir: ../")
                  /\ panic' = (IF git = "ok" THEN "" ELSE "update_submodules")
                  /\ pc' = (IF git = "ok" THEN "bindgen" ELSE "panicked")
    /\ UNCHANGED <<env, features, master, nix_paths, config, snappy_config, compiled>>

\* lines 673-678 and bindgen_rocksdb: generate the bindings
Bindgen ==
    /\ pc = "bindgen"
    /\ \E ok \in {"ok", "failed"} :
          /\ tools' = [tools EXCEPT !.bindgen = ok]
          /\ IF ok = "ok"
             THEN /\ env' = RemoveVars(env, BindgenVars)
                  /\ panic' = panic
                  /\ pc' = "find_rocksdb"
             ELSE /\ env' = SetVars(env,
                        [LIBCLANG_PATH |-> nix_paths["libclang_path"],
                         LLVM_CONFIG_PATH |-> nix_paths["llvm_config_path"],
                         LLVM_CONFIG |-> nix_paths["llvm_config"],
                         LIBCLANG_FLAGS |-> "--sysroot=" \o nix_paths["glibc_dev"]])
                  /\ panic' = "bindgen_rocksdb"
                  /\ pc' = "panicked"
    /\ UNCHANGED <<features, master, nix_paths, dirs, out, config, snappy_config,
                   compiled>>

\* AfterFindRocksdb without the FreeBSD branch
AfterFindRocksdb_NoFreebsd(found, target) ==
    IF found THEN "link_stdlib" ELSE "check_rocksdb"

\* lines 680-698: where main() goes after the decision for the top-level library
AfterFindRocksdb(found, target) ==
    IF found THEN "link_stdlib"
    ELSE IF Contains(target, "freebsd") THEN "freebsd"
    ELSE "check_rocksdb"

\* line 680: the decision for the top-level library
FindRocksdb ==
    /\ pc = "find_rocksdb"
    /\ LET r == try_to_find_and_link_lib(env, "ROCKSDB")
       IN  /\ out' = out \o r.lines
           /\ pc' = AfterFindRocksdb(r.found, Target)
    /\ UNCHANGED <<env, features, master, nix_paths, dirs, tools, config,
                   snappy_config, compiled, panic>>

\* lines 683-692: on FreeBSD link the system library and return
Freebsd ==
    /\ pc = "freebsd"
    /\ out' = out \o FreebsdLink(env)
    /\ pc' = "done"
    /\ UNCHANGED <<env, features, master, nix_paths, dirs, tools, config,
                   snappy_config, compiled, panic>>

\* what read_dir can find in a source tree: with rocksdb/AUTHORS seen, the
\* rocksdb tree is populated
DirCanBe(name, d) == (name = "rocksdb" /\ dirs.authors = "yes") => d = "populated"

\* CheckDirectory without the panic!() after the two warnings: an empty
\* directory is reported and the run goes on
CheckDirectory_WarnOnly(name, next) ==
    \E d \in DirStates :
        /\ DirCanBe(name, d)
        /\ dirs' = [dirs EXCEPT ![name] = d]
        /\ out' = out \o << "cargo:rerun-if-changed=" \o name \o "/" >>
                  \o (IF d = "empty"
                      THEN << "cargo:warning=The '" \o name
                                \o "' directory is empty, did you forget to pull the submodules?",
                              "cargo:warning=Try 'git submodule update --init --recursive'" >>
                      ELSE <<>>)
        /\ panic' = (IF d = "missing" THEN "fail_on_empty_directory" ELSE "")
        /\ pc' = (IF d = "missing" THEN "panicked" ELSE next)

\* fail_on_empty_directory(name), after the rerun-if-changed line before it
\* (the backquotes of the two warnings are written as quotes)
CheckDirectory(name, next) ==
    \E d \in DirStates :
        /\ DirCanBe(name, d)
        /\ dirs' = [dirs EXCEPT ![name] = d]
        /\ out' = out \o << "cargo:rerun-if-changed=" \o name \o "/" >>
                  \o (IF d = "empty"
                      THEN << "cargo:warning=The '" \o name
                                \o "' directory is empty, did you forget to pull the submodules?",
                              "cargo:warning=Try 'git submodule update --init --recursive'" >>
                      ELSE <<>>)
        /\ panic' = (IF d = "populated" THEN "" ELSE "fail_on_empty_directory")
        /\ pc' = (IF d = "populated" THEN next ELSE "panicked")

\* lines 694-695
CheckRocksdb ==
    /\ pc = "check_rocksdb"
    /\ CheckDirectory("rocksdb", "build_rocksdb")
    /\ UNCHANGED <<env, features, master, nix_paths, tools, config, snappy_config,
                   compiled>>

\* BuildRocksdb without the test of the compiler family under lto
BuildRocksdb_NoFamilyTest ==
    /\ pc = "build_rocksdb"
    /\ \E clang \in {"yes", "no"}, uring \in {"yes", "no"} :
        LET asked_clang == "lto" \in features
            asked_uring == "io-uring" \in features /\ Contains(Target, "linux")
            cA == ConfigFeatures(env, features, nix_paths)
            cB == ConfigPlatform(cA, env, features)
            outA == out \o <<"cargo:warning=Executing build_rocksdb function.">>
                        \o FeatureLinks(features, nix_paths)
            outB == outA \o PlatformLinks(env)
            envB == IF OsBranch(Target) = "apple-ios"
                    THEN SetVars(env, [IPHONEOS_DEPLOYMENT_TARGET |-> "12.0"])
                    ELSE env
        IN  /\ asked_clang \/ clang = "yes"
            /\ asked_uring \/ uring = "yes"
            /\ IF asked_uring /\ uring = "no"
               THEN /\ tools' = [tools EXCEPT
                                   !.clang = IF asked_clang THEN clang ELSE @,
                                   !.liburing = uring]
                    /\ config' = cB
                    /\ out' = outB
                    /\ env' = envB
                    /\ compiled' = compiled
                    /\ panic' = "io-uring"
                    /\ pc' = "panicked"
               ELSE /\ tools' = [tools EXCEPT
                                   !.clang = IF asked_clang THEN clang ELSE @,
                                   !.liburing = IF asked_uring THEN uring ELSE @]
                    /\ config' = ConfigFinish(cB, env, features, master)
                    /\ out' = outB \o (IF Contains(Target, "riscv64gc")
                                       THEN <<"cargo:rustc-link-lib=atomic">>
                                       ELSE <<>>)
                    /\ env' = envB
                    /\ compiled' = Append(compiled, "librocksdb.a")
                    /\ panic' = panic
                    /\ pc' = "find_snappy"
    /\ UNCHANGED <<features, master, nix_paths, dirs, snappy_config>>

\* line 696, build_rocksdb: assemble the configuration and compile it
BuildRocksdb ==
    /\ pc = "build_rocksdb"
    /\ \E clang \in {"yes", "no"}, uring \in {"yes", "no"} :
        LET asked_clang == "lto" \in features
            asked_uring == "io-uring" \in features /\ Contains(Target, "linux")
            cA == ConfigFeatures(env, features, nix_paths)
            cB == ConfigPlatform(cA, env, features)
            outA == out \o <<"cargo:warning=Executing build_rocksdb function.">>
                        \o FeatureLinks(features, nix_paths)
            outB == outA \o PlatformLinks(env)
            envB == IF OsBranch(Target) = "apple-ios"
                    THEN SetVars(env, [IPHONEOS_DEPLOYMENT_TARGET |-> "12.0"])
                    ELSE env
        IN  /\ asked_clang \/ clang = "yes"
            /\ asked_uring \/ uring = "yes"
            /\ IF asked_clang /\ clang = "no"
               THEN /\ tools' = [tools EXCEPT !.clang = clang]
                    /\ config' = cA
                    /\ out' = outA
                    /\ env' = env
                    /\ compiled' = compiled
                    /\ panic' = "lto"
                    /\ pc' = "panicked"
               ELSE IF asked_uring /\ uring = "no"
               THEN /\ tools' = [tools EXCEPT
                                   !.clang = IF asked_clang THEN clang ELSE @,
                                   !.liburing = uring]
                    /\ config' = cB
                    /\ out' = outB
                    /\ env' = envB
                    /\ compiled' = compiled
                    /\ panic' = "io-uring"
                    /\ pc' = "panicked"
               ELSE /\ tools' = [tools EXCEPT
                                   !.clang = IF asked_clang THEN clang ELSE @,
                                   !.liburing = IF asked_uring THEN uring ELSE @]
                    /\ config' = ConfigFinish(cB, env, features, master)
                    /\ out' = outB \o (IF Contains(Target, "riscv64gc")
                                       THEN <<"cargo:rustc-link-lib=atomic">>
                                       ELSE <<>>)
                    /\ env' = envB
                    /\ compiled' = Append(compiled, "librocksdb.a")
                    /\ panic' = panic
                    /\ pc' = "find_snappy"
    /\ UNCHANGED <<features, master, nix_paths, dirs, snappy_config>>

\* line 698: the top-level library was found; link the C++ runtime
LinkStdlib ==
    /\ pc = "link_stdlib"
    /\ out' = out \o cpp_link_stdlib(env, Target)
    /\ pc' = "find_snappy"
    /\ UNCHANGED <<env, features, master, nix_paths, dirs, tools, config,
                   snappy_config, compiled, panic>>

\* line 700: the decision for snappy, taken only with the feature
FindSnappy ==
    /\ pc = "find_snappy"
    /\ IF "snappy" \in features
       THEN LET r == try_to_find_and_link_lib(env, "SNAPPY")
            IN  /\ out' = out \o r.lines
                /\ pc' = IF r.found THEN "finish" ELSE "check_snappy"
       ELSE /\ out' = out
            /\ pc' = "finish"
    /\ UNCHANGED <<env, features, master, nix_paths, dirs, tools, config,
                   snappy_config, compiled, panic>>

\* lines 701-702
CheckSnappy ==
    /\ pc = "check_snappy"
    /\ CheckDirectory("snappy", "build_snappy")
    /\ UNCHANGED <<env, features, master, nix_paths, tools, config, snappy_config,
                   compiled>>

\* line 703, build_snappy
BuildSnappy ==
    /\ pc = "build_snappy"
    /\ snappy_config' = SnappyConfig(env, features, nix_paths)
    /\ compiled' = Append(compiled, "libsnappy.a")
    /\ pc' = "finish"
    /\ UNCHANGED <<env, features, master, nix_paths, dirs, tools, out, config, panic>>

\* lines 709-713: tell dependent crates where the sources and the output are
Finish ==
    /\ pc = "finish"
    /\ out' = out \o << "cargo:cargo_manifest_dir=" \o env["CARGO_MANIFEST_DIR"],
                        "cargo:out_dir=" \o env["OUT_DIR"] >>
    /\ pc' = "done"
    /\ UNCHANGED <<env, features, master, nix_paths, dirs, tools, config,
                   snappy_config, compiled, panic>>

Next ==
    \/ Setup
    \/ Submodules
    \/ Bindgen
    \/ FindRocksdb
    \/ Freebsd
    \/ CheckRocksdb
    \/ BuildRocksdb
    \/ LinkStdlib
    \/ FindSnappy
    \/ CheckSnappy
    \/ BuildSnappy
    \/ Finish

Spec == Init /\ [][Next]_vars

----------------------------------------------------------------------------
(* The functions of the script on their own inputs.  Each specification    *)
(* below starts main() at the call of one function, in the state main()   *)
(* has there, with the inputs of that function drawn from a wider set.    *)

\* main() at position p, started in environment e0, with `printed` on stdout
At(p, e0, feats, text, printed) ==
    /\ pc = p
    /\ env = (IF p = "start" THEN e0 ELSE RemoveVars(EnvAfterSetup(e0), BindgenVars))
    /\ features = feats
    /\ master = text
    /\ nix_paths = (IF p = "start" THEN [f \in NixFields |-> None]
                    ELSE default_nix_paths(e0))
    /\ dirs = [authors |-> (IF p = "start" THEN Unasked ELSE "yes"),
               rocksdb |-> (IF p = "build_rocksdb" THEN "populated" ELSE Unasked),
               snappy |-> Unasked]
    /\ tools = [git |-> Unasked,
                bindgen |-> (IF p = "start" THEN Unasked ELSE "ok"),
                clang |-> Unasked, liburing |-> Unasked]
    /\ out = printed
    /\ config = EmptyConfig
    /\ snappy_config = EmptyConfig
    /\ compiled = <<>>
    /\ panic = ""

NoOverrides(t, tf, nix) ==
    StartEnv(t, Unset, Unset, Unset, Unset, Unset, Unset, Unset, tf, nix)

(* get_nix_path_from_env: default_nix_paths over environments in which up  *)
(* to MaxNixSet of the NIX_ variables are set, each to the provider's path *)
(* or to another one.                                                      *)

MaxNixSet == 2

NixDefault(var) ==
    HardcodedNixPaths(NixVars[CHOOSE i \in DOMAIN NixVars : NixVars[i][2] = var][1])

NixEnvs ==
    UNION {{[n \in NixEnvNames |->
                IF n \in S THEN (IF a[n] = "same" THEN NixDefault(n) ELSE "/env/other")
                ELSE Unset] : a \in [S -> {"same", "other"}]}
           : S \in {T \in SUBSET NixEnvNames : Cardinality(T) <= MaxNixSet}}

InitNix ==
    \E nix \in NixEnvs :
        At("start", NoOverrides("x86_64-unknown-linux-gnu", Unset, nix),
           {}, MasterText, <<>>)

SpecNix == InitNix /\ [][Setup]_vars

(* try_to_find_and_link_lib: the two calls of main(), over more values of  *)
(* the three overrides.                                                    *)

LinkCompileValues == {Unset, "true", "TRUE", "True", "1", "0", "false", "yes", ""}
LinkLibDirValues  == {Unset, "/opt/lib", ""}
LinkStaticValues  == {Unset, "0", "1", ""}
LinkTargets == {"x86_64-unknown-linux-gnu", "x86_64-unknown-freebsd"}

InitLink ==
    \E t \in LinkTargets, c \in LinkCompileValues, l \in LinkLibDirValues,
       st \in LinkStaticValues :
        \/ At("find_rocksdb",
              StartEnv(t, c, l, st, Unset, Unset, Unset, Unset, Unset, NoNixEnv),
              {"snappy"}, MasterText, <<>>)
        \/ At("find_snappy",
              StartEnv(t, Unset, Unset, Unset, c, l, st, Unset, Unset, NoNixEnv),
              {"snappy"}, MasterText, <<>>)

NextLink ==
    \/ FindRocksdb
    \/ FindSnappy

SpecLink == InitLink /\ [][NextLink]_vars

(* build_rocksdb on every target, over feature sets and reported target    *)
(* features.  The function is taken with TARGET as its input: a FreeBSD    *)
(* target is among them although main() never calls it on one.             *)

BuildFeatureSets ==
    {{}, {"jemalloc"}, {"lto"}, {"io-uring"}, {"snappy", "lz4", "zstd"}, AllFeatures}

TargetFeatureValues ==
    {Unset, "", "sse2,sse4.2,avx2,vpclmulqdq",
     "sse2,sse4.1,sse4.2,avx2,bmi1,lzcnt,pclmulqdq"}

InitBuild ==
    \E t \in Targets, tf \in TargetFeatureValues, feats \in BuildFeatureSets :
        At("build_rocksdb", NoOverrides(t, tf, NoNixEnv), feats, MasterText, <<>>)

SpecBuild == InitBuild /\ [][BuildRocksdb]_vars

(* The source list of build_rocksdb, over master lists of up to            *)
(* MaxMasterLen lines.                                                     *)

MaxMasterLen == 2

MasterLines ==
    {"util/build_version.cc", "db/util/build_version.cc", "db/db_impl.cc",
     "port/port_posix.cc", "env/env_posix.cc", "env/fs_posix.cc",
     "env/io_posix.cc", "port/win/env_win.cc", "  util/crc32c.cc\r"}

RECURSIVE JoinLines(_)
JoinLines(ls) == IF ls = <<>> THEN "" ELSE Head(ls) \o "\n" \o JoinLines(Tail(ls))

\* a master list names a file once
MasterTexts ==
    {JoinLines(ls) :
        ls \in {l \in UNION {[1..n -> MasterLines] : n \in 0..MaxMasterLen} :
                   \A i, j \in DOMAIN l : l[i] = l[j] => i = j}}

SourceTargets ==
    {"x86_64-unknown-linux-gnu", "x86_64-apple-darwin", "x86_64-pc-windows-gnu",
     "x86_64-pc-windows-msvc"}

InitSources ==
    \E t \in SourceTargets, feats \in {{}, {"jemalloc"}}, text \in MasterTexts :
        At("build_rocksdb", NoOverrides(t, Unset, NoNixEnv), feats, text, <<>>)

SpecSources == InitSources /\ [][BuildRocksdb]_vars

----------------------------------------------------------------------------
(* What the claims speak of *)

\* build_rocksdb has run to its end
BuiltRocksdb == InSeq("librocksdb.a", compiled)

\* main() is past the decision for the top-level library
PastRocksdbDecision ==
    \/ pc \in {"link_stdlib", "freebsd", "check_rocksdb", "build_rocksdb",
               "find_snappy", "check_snappy", "build_snappy", "finish", "done"}
    \/ pc = "panicked" /\ panic \notin {"update_submodules", "bindgen_rocksdb"}

\* a truthy <DEP>_COMPILE: 1, or true in any case
Truthy(v) == v \in {"1", "true", "TRUE", "True"}

\* the names of the OS_ markers a configuration defines, one per define made
OsMarkers(c) ==
    SelectSeq([i \in DOMAIN c.defines |-> c.defines[i][1]],
              LAMBDA n : StartsWith(n, "OS_"))

----------------------------------------------------------------------------
(* C1 *)

\* C1: when the target contains android, dragonfly, musl or darwin, the
\* defines of build_rocksdb include neither ROCKSDB_JEMALLOC nor
\* JEMALLOC_NO_DEMANGLE, with or without the jemalloc feature.
C1_NoJemallocOnExcludedTargets ==
    (\E x \in {"android", "dragonfly", "musl", "darwin"} : Contains(Target, x))
        => /\ "ROCKSDB_JEMALLOC" \notin DefinedNames(config)
           /\ "JEMALLOC_NO_DEMANGLE" \notin DefinedNames(config)

C1_Witness ==
    /\ Target = "x86_64-unknown-linux-musl"
    /\ "jemalloc" \in features
    /\ BuiltRocksdb
    /\ "ROCKSDB_SUPPORT_THREAD_LOCAL" \in DefinedNames(config)

----------------------------------------------------------------------------
(* C2 *)

\* the link directives among the printed lines
LinkLines == SelectSeq(out, IsLink)

\* C2: after try_to_find_and_link_lib(D), for D in ROCKSDB and SNAPPY: with
\* D_COMPILE truthy the library was not found and no link directive was
\* printed, even with D_LIB_DIR set; otherwise with D_LIB_DIR set it was found
\* and the link directives are one link-search for that path and then one
\* link-lib for the lowercased name, static iff D_STATIC is set at all;
\* otherwise it was not found and no link directive was printed.
C2_Decision ==
    \A D \in {"ROCKSDB", "SNAPPY"} :
        LET decided == IF D = "ROCKSDB"
                       THEN pc \in {"link_stdlib", "freebsd", "check_rocksdb"}
                       ELSE pc \in {"finish", "check_snappy"}
            found == IF D = "ROCKSDB" THEN pc = "link_stdlib" ELSE pc = "finish"
            lower == IF D = "ROCKSDB" THEN "rocksdb" ELSE "snappy"
            mode == IF env[D \o "_STATIC"] = Unset THEN "dylib" ELSE "static"
        IN  decided =>
              IF ~Truthy(env[D \o "_COMPILE"]) /\ env[D \o "_LIB_DIR"] # Unset
              THEN /\ found
                   /\ LinkLines =
                        << "cargo:rustc-link-search=native=" \o env[D \o "_LIB_DIR"],
                           "cargo:rustc-link-lib=" \o mode \o "=" \o lower >>
              ELSE /\ ~found
                   /\ LinkLines = <<>>

C2_Witness ==
    /\ pc = "check_snappy"
    /\ env["SNAPPY_COMPILE"] = "True"
    /\ env["SNAPPY_LIB_DIR"] = "/opt/lib"
    /\ Len(out) = 1

----------------------------------------------------------------------------
(* C3 *)

\* C3: on a FreeBSD target, whatever the ROCKSDB_ overrides, main() never
\* checks the bundled rocksdb tree and never runs build_rocksdb, and once it
\* is past the decision for the top-level library and its FreeBSD branch it
\* has printed a link-lib directive for the system rocksdb.
C3_FreebsdNeverBuilds ==
    Contains(Target, "freebsd") =>
        /\ pc \notin {"check_rocksdb", "build_rocksdb"}
        /\ dirs.rocksdb = Unasked
        /\ ~BuiltRocksdb
        /\ ~InSeq("cargo:warning=Executing build_rocksdb function.", out)
        /\ ~InSeq("cargo:rerun-if-changed=rocksdb/", out)
        /\ (PastRocksdbDecision /\ pc # "freebsd")
              => \/ InSeq("cargo:rustc-link-lib=dylib=rocksdb", out)
                 \/ InSeq("cargo:rustc-link-lib=static=rocksdb", out)

C3_Witness ==
    /\ Target = "x86_64-unknown-freebsd"
    /\ env["ROCKSDB_COMPILE"] = "TRUE"
    /\ env["ROCKSDB_LIB_DIR"] = "/opt/lib"
    /\ pc = "done"
    /\ InSeq("cargo:rustc-link-search=native=/usr/local/lib", out)

----------------------------------------------------------------------------
(* C4 *)

\* C4 as stated: every bundled build defines exactly one OS_ marker.
C4_ExactlyOneMarker == BuiltRocksdb => Len(OsMarkers(config)) = 1

\* the marker of the first substring the target contains, in the order
\* apple-ios, darwin, android, aix, linux, dragonfly, freebsd, netbsd,
\* openbsd, windows; none when it contains none
C4_Expected(t) ==
    IF Contains(t, "apple-ios") THEN <<"OS_MACOSX">>
    ELSE IF Contains(t, "darwin") THEN <<"OS_MACOSX">>
    ELSE IF Contains(t, "android") THEN <<"OS_ANDROID">>
    ELSE IF Contains(t, "aix") THEN <<"OS_AIX">>
    ELSE IF Contains(t, "linux") THEN <<"OS_LINUX">>
    ELSE IF Contains(t, "dragonfly") THEN <<"OS_DRAGONFLYBSD">>
    ELSE IF Contains(t, "freebsd") THEN <<"OS_FREEBSD">>
    ELSE IF Contains(t, "netbsd") THEN <<"OS_NETBSD">>
    ELSE IF Contains(t, "openbsd") THEN <<"OS_OPENBSD">>
    ELSE IF Contains(t, "windows") THEN <<"OS_WIN">>
    ELSE <<>>

\* C4, amended: a bundled build defines at most one OS_ marker: the one of
\* the first substring the target contains in the priority order, and none
\* when the target contains none of the ten substrings.
C4_FirstMatchOrNone == BuiltRocksdb => OsMarkers(config) = C4_Expected(Target)

C4_Witness ==
    /\ Target = "aarch64-linux-android"
    /\ BuiltRocksdb
    /\ OsMarkers(config) = <<"OS_ANDROID">>

----------------------------------------------------------------------------
(* C5 *)

\* the files handed to the compiler once build_rocksdb has run to its end
SourceFiles == config.files

\* C5 as stated: for every master source list, on a Windows target the
\* composed list has none of the four POSIX files and each of the six Windows
\* files exactly once, and win_jemalloc.cc iff the jemalloc feature is on; on
\* any other target the list is the master list without util/build_version.cc.
C5_WindowsSourcesOnce ==
    BuiltRocksdb =>
        IF Contains(Target, "windows")
        THEN /\ \A f \in {"port/port_posix.cc", "env/env_posix.cc",
                          "env/fs_posix.cc", "env/io_posix.cc"} :
                    ~InSeq("rocksdb/" \o f, SourceFiles)
             /\ \A f \in {"port/win/env_default.cc", "port/win/env_win.cc",
                          "port/win/io_win.cc", "port/win/port_win.cc",
                          "port/win/win_logger.cc", "port/win/win_thread.cc"} :
                    Count("rocksdb/" \o f, SourceFiles) = 1
             /\ InSeq("rocksdb/port/win/win_jemalloc.cc", SourceFiles)
                    <=> "jemalloc" \in features
        ELSE SourceFiles
               = Prefixed("rocksdb/", InitialSources(master)) \o <<"build_version.cc">>

----------------------------------------------------------------------------
(* C6 *)

\* C6 as stated: in every bundled build the compiled files never include the
\* master list's util/build_version.cc and include the pre-generated
\* build_version.cc exactly once; an entry that only contains that path as a
\* substring is kept; and no file is compiled twice.
C6_BuildVersionAndNoDuplicates ==
    BuiltRocksdb =>
        /\ ~InSeq("rocksdb/util/build_version.cc", SourceFiles)
        /\ Count("build_version.cc", SourceFiles) = 1
        /\ InSeq("db/util/build_version.cc", MasterList(master))
              => InSeq("rocksdb/db/util/build_version.cc", SourceFiles)
        /\ \A i, j \in DOMAIN SourceFiles : SourceFiles[i] = SourceFiles[j] => i = j

----------------------------------------------------------------------------
(* C7 *)

\* the system rocksdb was found: ROCKSDB_LIB_DIR set, ROCKSDB_COMPILE not truthy
RocksdbFound == env["ROCKSDB_LIB_DIR"] # Unset /\ ~Truthy(env["ROCKSDB_COMPILE"])

\* the C++ runtime directives among the printed lines
RuntimeLines ==
    SelectSeq(out, LAMBDA l : l \in {"cargo:rustc-link-lib=dylib=c++",
                                     "cargo:rustc-link-lib=dylib=stdc++",
                                     "cargo:rustc-link-lib=dylib=c++abi",
                                     "cargo:rustc-link-lib=dylib=c++_shared"})

\* the runtime directives of a target's platform
C7_Platform(t) ==
    IF Contains(t, "apple") \/ Contains(t, "freebsd") \/ Contains(t, "openbsd")
    THEN <<"cargo:rustc-link-lib=dylib=c++">>
    ELSE IF Contains(t, "linux") THEN <<"cargo:rustc-link-lib=dylib=stdc++">>
    ELSE IF Contains(t, "aix")
    THEN <<"cargo:rustc-link-lib=dylib=c++", "cargo:rustc-link-lib=dylib=c++abi">>
    ELSE <<>>

\* C7 as stated: a completed run has printed a C++ runtime directive exactly
\* when it skipped the bundled build of rocksdb.
C7_RuntimeIffNotBuilt == pc = "done" => (RuntimeLines # <<>> <=> ~BuiltRocksdb)

\* C7, amended: C++ runtime directives are printed only when the system
\* rocksdb was found by try_to_find_and_link_lib, and then they are the one
\* for CXXSTDLIB if that is set, else c++ on apple, freebsd and openbsd
\* targets, stdc++ on linux targets, c++ then c++abi on aix targets, and none
\* on any other target; the FreeBSD fallback and the bundled build print none.
C7_RuntimeOnlyWhenFound ==
    RuntimeLines =
        IF RocksdbFound /\ PastRocksdbDecision /\ pc # "link_stdlib"
        THEN IF env["CXXSTDLIB"] # Unset
             THEN <<"cargo:rustc-link-lib=dylib=" \o env["CXXSTDLIB"]>>
             ELSE C7_Platform(Target)
        ELSE <<>>

C7_Witness ==
    /\ pc = "done"
    /\ RocksdbFound
    /\ Target = "powerpc64-ibm-aix"
    /\ RuntimeLines = <<"cargo:rustc-link-lib=dylib=c++", "cargo:rustc-link-lib=dylib=c++abi">>

----------------------------------------------------------------------------
(* C8 *)

IsRocksdbLib(l) ==
    l \in {"cargo:rustc-link-lib=dylib=rocksdb", "cargo:rustc-link-lib=static=rocksdb"}

IsSnappyLib(l) ==
    l \in {"cargo:rustc-link-lib=dylib=snappy", "cargo:rustc-link-lib=static=snappy"}

\* C8 as stated: the link directives of a snappy found on the system come
\* before the link-lib directive of the top-level rocksdb library.
C8_SnappyBeforeRocksdb ==
    \A i, j \in DOMAIN out :
        (IsSnappyLib(out[i]) /\ IsRocksdbLib(out[j])) => i < j

\* C8, amended: the link directives of a snappy found on the system are its
\* link-search directive immediately followed by its link-lib directive, and
\* both come after the link-lib directive of the top-level rocksdb library
\* whenever the script prints one.
C8_SnappyAfterRocksdb ==
    \A i \in DOMAIN out :
        IsSnappyLib(out[i]) =>
            /\ i > 1
            /\ out[i - 1] = "cargo:rustc-link-search=native=" \o env["SNAPPY_LIB_DIR"]
            /\ \A j \in DOMAIN out : IsRocksdbLib(out[j]) => j < i - 1

C8_Witness ==
    /\ pc = "done"
    /\ \E i, j \in DOMAIN out : IsRocksdbLib(out[j]) /\ IsSnappyLib(out[i]) /\ j < i

----------------------------------------------------------------------------
(* C9 *)

\* the number of printed lines that begin with a prefix
CountPrefix(s, p) == Cardinality({i \in DOMAIN s : StartsWith(s[i], p)})

----------------------------------------------------------------------------
(* C10 *)

\* linux-gnu, no override variable set, every feature enabled
C10_Scenario ==
    /\ Target = "x86_64-unknown-linux-gnu"
    /\ features = AllFeatures
    /\ \A v \in {"ROCKSDB_COMPILE", "ROCKSDB_LIB_DIR", "ROCKSDB_STATIC",
                 "SNAPPY_COMPILE", "SNAPPY_LIB_DIR", "SNAPPY_STATIC", "CXXSTDLIB"} :
          env[v] = Unset

\* the parts of the plan that C10 has right
C10_Platform ==
    /\ OsMarkers(config) = <<"OS_LINUX">>
    /\ {"ROCKSDB_PLATFORM_POSIX", "ROCKSDB_LIB_IO_POSIX",
        "ROCKSDB_SCHED_GETCPU_PRESENT"} \subseteq DefinedNames(config)
    /\ SourceFiles = Prefixed("rocksdb/", InitialSources(master)) \o <<"build_version.cc">>
    /\ RuntimeLines = <<>>

----------------------------------------------------------------------------
(* C11 *)

\* the archive compiled from a bundled source tree
ArchiveOf(name) == IF name = "rocksdb" THEN "librocksdb.a" ELSE "libsnappy.a"

----------------------------------------------------------------------------
(* C12 *)

\* C12: build_rocksdb always resolves the compiler to <gcc_path>/bin/g++;
\* when the lto feature is on and that compiler is not clang-like the run
\* aborts on it with nothing compiled and never completes; a run with lto
\* on that compiles librocksdb.a had a clang-like compiler; and with lto off
\* the compiler family is never asked for and never aborts the run.
C12_LtoNeedsClang ==
    /\ config # EmptyConfig => config.compiler = nix_paths.gcc_path \o "/bin/g++"
    /\ tools.clang = "no" =>
          /\ "lto" \in features
          /\ pc = "panicked"
          /\ panic = "lto"
          /\ compiled = <<>>
    /\ (BuiltRocksdb /\ "lto" \in features) => tools.clang = "yes"
    /\ "lto" \notin features => (panic # "lto" /\ tools.clang = Unasked)

C12_Witness ==
    /\ pc = "panicked"
    /\ panic = "lto"
    /\ tools.clang = "no"
    /\ InSeq("-flto", config.flags)
    /\ dirs.rocksdb = "populated"

----------------------------------------------------------------------------
(* C13 *)

\* the positions of the two discoverability directives among the printed lines
ManifestDirAt == {i \in DOMAIN out : StartsWith(out[i], "cargo:cargo_manifest_dir=")}
OutDirAt == {i \in DOMAIN out : StartsWith(out[i], "cargo:out_dir=")}

\* C13 as stated: every run that ends without a fatal error has printed
\* cargo_manifest_dir and out_dir, each exactly once and after every link
\* directive.
C13_DiscoverabilityAlways ==
    pc = "done" =>
        /\ Cardinality(ManifestDirAt) = 1
        /\ Cardinality(OutDirAt) = 1
        /\ \A i \in DOMAIN out, k \in ManifestDirAt \cup OutDirAt :
              IsLink(out[i]) => i < k

----------------------------------------------------------------------------
(* C14 *)

\* the script has printed the link directive of a system snappy
SnappyLinked == \E i \in DOMAIN out : IsSnappyLib(out[i])

\* the bundled snappy has been compiled
SnappyBuilt == InSeq("libsnappy.a", compiled)

\* C14 as stated: every run that ends without a fatal error and has the
\* snappy feature on has either linked the system snappy or compiled the
\* bundled one, never both and never neither.
C14_OneSnappyDecision ==
    (pc = "done" /\ "snappy" \in features) => (SnappyLinked /\ ~SnappyBuilt) \/ (~SnappyLinked /\ SnappyBuilt)

----------------------------------------------------------------------------
(* C15 *)

\* the values a configuration defines a name with
ValuesOf(c, name) == {c.defines[i][2] : i \in {k \in DOMAIN c.defines : c.defines[k][1] = name}}

\* C15: a bundled build defines _FILE_OFFSET_BITS=64 and
\* _LARGEFILE64_SOURCE=1, each once, when the reported pointer width is not
\* 64 and the target is not armv7-linux-androideabi, and neither of them
\* otherwise; _FILE_OFFSET_BITS never has two values, and
\* armv7-linux-androideabi gets only _FILE_OFFSET_BITS=32.
C15_LargeFilePair ==
    BuiltRocksdb =>
        LET wide == /\ env["CARGO_CFG_TARGET_POINTER_WIDTH"] # "64"
                    /\ Target # "armv7-linux-androideabi"
        IN  /\ wide => /\ Count(<<"_FILE_OFFSET_BITS", "64">>, config.defines) = 1
                       /\ Count(<<"_LARGEFILE64_SOURCE", "1">>, config.defines) = 1
            /\ ~wide => /\ "64" \notin ValuesOf(config, "_FILE_OFFSET_BITS")
                        /\ "_LARGEFILE64_SOURCE" \notin DefinedNames(config)
            /\ Cardinality(ValuesOf(config, "_FILE_OFFSET_BITS")) <= 1
            /\ Target = "armv7-linux-androideabi"
                  => ValuesOf(config, "_FILE_OFFSET_BITS") = {"32"}

C15_Witness ==
    /\ BuiltRocksdb
    /\ Target = "x86_64-unknown-linux-gnux32"
    /\ env["CARGO_CFG_TARGET_POINTER_WIDTH"] = "32"
    /\ ValuesOf(config, "_FILE_OFFSET_BITS") = {"64"}
    /\ ValuesOf(config, "_LARGEFILE64_SOURCE") = {"1"}

----------------------------------------------------------------------------
(* C16 *)

\* the flag of each token of the reported target features
C16_FlagOf ==
    [sse2 |-> "-msse2", sse41 |-> "-msse4.1", sse42 |-> "-msse4.2",
     avx2 |-> "-mavx2", bmi1 |-> "-mbmi", lzcnt |-> "-mlzcnt",
     pclmulqdq |-> "-mpclmul"]

\* the tokens that are whole comma-separated elements of a reported string
C16_Elements(tf) ==
    CASE tf = "sse2,sse4.2,avx2,vpclmulqdq" -> {"sse2", "sse42", "avx2"}
      [] tf = "sse2,sse4.1,sse4.2,avx2,bmi1,lzcnt,pclmulqdq" ->
            {"sse2", "sse41", "sse42", "avx2", "bmi1", "lzcnt", "pclmulqdq"}
      [] OTHER -> {}

\* the architecture-feature flags a configuration requests
ArchRequested ==
    {f \in {C16_FlagOf[t] : t \in DOMAIN C16_FlagOf} : InSeq(f, config.flags_if_supported)}

\* C16: a bundled build requests exactly the architecture-feature flags whose
\* token is a whole comma-separated element of the reported feature string,
\* and only on a target containing x86_64, -mpclmul never on android; each
\* at most once; with the string absent it requests none, and the absence
\* aborts no run.
C16_ArchFlagsByToken ==
    LET tf == env["CARGO_CFG_TARGET_FEATURE"]
        expected ==
            IF Contains(Target, "x86_64") /\ tf # Unset
            THEN {C16_FlagOf[t] : t \in C16_Elements(tf)}
                 \ (IF Contains(Target, "android") THEN {"-mpclmul"} ELSE {})
            ELSE {}
    IN  /\ BuiltRocksdb =>
              /\ ArchRequested = expected
              /\ \A f \in ArchRequested : Count(f, config.flags_if_supported) = 1
        /\ (tf = Unset /\ pc = "panicked") => panic \in {"lto", "io-uring"}

C16_Witness ==
    /\ BuiltRocksdb
    /\ Target = "x86_64-linux-android"
    /\ env["CARGO_CFG_TARGET_FEATURE"] = "sse2,sse4.1,sse4.2,avx2,bmi1,lzcnt,pclmulqdq"
    /\ ArchRequested = {"-msse2", "-msse4.1", "-msse4.2", "-mavx2", "-mbmi", "-mlzcnt"}

====
